---------------------------- MODULE Spec2Model ----------------------------
(***************************************************************************)
(* Model of src/main.py: the processor selector (validate_environment,     *)
(* initialize_processor) and the batch loop of run_pipeline.               *)
(*                                                                         *)
(* Python values are tagged records [type, val]; a dict is a TLA+ function *)
(* from its keys to tagged values, so that a missing key, a value of the   *)
(* wrong type and a present value are three different things, as they are  *)
(* in the program.                                                         *)
(***************************************************************************)
EXTENDS Integers, Sequences, FiniteSets, TLC

VARIABLES
    pc,               \* position of run_pipeline
    env,              \* os.environ, restricted to the two provider keys
    ollama,           \* what GET http://localhost:11434/api/tags does on this machine
    config,           \* config['system'] as loaded by load_config
    log,              \* the selector's log lines so far: <<tag, exception text>>
    processor,        \* the object initialize_processor returned
    processor_type,   \* its mode label
    raw_data,         \* the collected, deduplicated articles
    relevance_threshold,
    idx,              \* enumerate(raw_data, 1) position of the next article
    final_insights,
    failed_analyses,
    below_threshold,  \* articles whose "[-] Score ... (below threshold)" line was logged
    results,          \* what each process_article call returned or raised, in call order
    exit_code,        \* argument of sys.exit, or None
    error             \* the exception logged by the "CRITICAL ERROR" handler, or None

vars == <<pc, env, ollama, config, log, processor, processor_type, raw_data,
          relevance_threshold, idx, final_insights, failed_analyses,
          below_threshold, results, exit_code, error>>

(***************************************************************************)
(* Bounds.                                                                 *)
(***************************************************************************)
MaxArticles == 3

(***************************************************************************)
(* Python values.                                                          *)
(***************************************************************************)
PyNone == [type |-> "NoneType"]
PyInt(n) == [type |-> "int", val |-> n]
PyStr(s) == [type |-> "str", val |-> s]
PyBool(b) == [type |-> "bool", val |-> b]
EmptyDict == [k \in {} |-> PyNone]

\* dict.get(key, default)
DictGet(d, key, default) == IF key \in DOMAIN d THEN d[key] ELSE default

\* bool(x) of a string or None, as in "if not api_key" and bool(os.getenv(..))
Truthy(v) == v.type = "str" /\ v.val # ""

\* os.getenv(name): the value, or None when the variable is not set
GetEnv(name) == DictGet(env, name, PyNone)


(***************************************************************************)
(* Input domains.                                                          *)
(***************************************************************************)
GroqKeys == {PyStr(""), PyStr("gsk-key")}
GoogleKeys == {PyStr("AIza-key")}

\* os.environ restricted to the two provider keys: each unset or set, the
\* first-tried one also set to the empty string
Environments ==
    {[k \in {"GROQ_API_KEY"} |-> g] : g \in GroqKeys}
    \cup {[k \in {"GOOGLE_API_KEY"} |-> a] : a \in GoogleKeys}
    \cup {[k \in {"GROQ_API_KEY", "GOOGLE_API_KEY"} |->
              IF k = "GROQ_API_KEY" THEN g ELSE a] : g \in GroqKeys, a \in GoogleKeys}
    \cup {EmptyDict}

\* config['system'], its nested keys flattened to dotted paths; every key optional
ConfigKeys == {"multi_model.enabled", "graph_rag.enabled", "relevance_threshold"}
ConfigValue(k) ==
    CASE k = "multi_model.enabled" -> {PyBool(TRUE)}
      [] k = "graph_rag.enabled" -> {PyBool(TRUE)}
      [] k = "relevance_threshold" -> {PyInt(0), PyInt(60)}
ConfigValues == UNION {ConfigValue(k) : k \in ConfigKeys}
Configs ==
    {c \in UNION {[keys -> ConfigValues] : keys \in SUBSET ConfigKeys} :
        \A k \in DOMAIN c : c[k] \in ConfigValue(k)}

\* outcomes of the import of line 112, of the import and construction of lines
\* 119-123 and of the constructor call of line 130: success, or the exception
MultiModelImports == {"ok", "ImportError: src.multimodal_orchestrator"}
KnowledgeGraphOutcomes ==
    {"ok", "ImportError: src.knowledge_graph", "RuntimeError: EnterpriseKnowledgeManager"}
MultiModelConstructions ==
    {"ok", "ImportError: EnterpriseAIProcessor", "RuntimeError: EnterpriseAIProcessor"}
ImportErrors == {"ImportError: src.multimodal_orchestrator",
                 "ImportError: src.knowledge_graph",
                 "ImportError: EnterpriseAIProcessor"}

\* a log line without an exception in it
Line(tag) == <<tag, "">>

(***************************************************************************)
(* validate_environment                                                    *)
(***************************************************************************)
\* line 83: at least one of the three backends
HasProvider(has_gemini, has_groq, has_ollama) == has_gemini \/ has_groq \/ has_ollama

\* lines 76-81: the probe raises (nothing listens on the port) or answers 200;
\* has_ollama starts False and only a 200 answer sets it
ProbeResults == {"raises", "200"}
HasOllama_StartsTrue(probe) == TRUE
HasOllama(probe) == probe = "200"

(***************************************************************************)
(* initialize_processor                                                    *)
(***************************************************************************)
KnowledgeManager == [type |-> "EnterpriseKnowledgeManager"]

\* line 125, "except Exception": every outcome but success is caught
GraphRagCaught_ImportOnly(exc) == exc \in ImportErrors
GraphRagCaught(exc) == exc # "ok"

\* line 140, "except ImportError"
MultiModelCaught(exc) == exc \in ImportErrors

\* lines 110-138: the try block. mmImport is the import of line 112, kg the
\* import-and-construction of lines 119-123, mmCtor the constructor of line 130.
MultiModelAttempt(cfg, mmImport, kg, mmCtor) ==
    LET use_graph_rag == DictGet(cfg, "graph_rag.enabled", PyBool(FALSE)).val
        started == {Line("multi_model_enabled")}
        kgLog == IF ~use_graph_rag THEN {}
                 ELSE IF kg = "ok" THEN {Line("graph_rag_enabled"), Line("kg_ok")}
                 ELSE IF GraphRagCaught(kg)
                 THEN {Line("graph_rag_enabled"), <<"graph_rag_failed", kg>>}
                 ELSE {Line("graph_rag_enabled")}
        knowledge_manager == IF use_graph_rag /\ kg = "ok" THEN KnowledgeManager ELSE PyNone
    IN  IF mmImport # "ok"
        THEN [raised |-> mmImport, log |-> started, processor |-> PyNone]
        ELSE IF use_graph_rag /\ kg # "ok" /\ ~GraphRagCaught(kg)
        THEN [raised |-> kg, log |-> started \cup kgLog, processor |-> PyNone]
        ELSE IF mmCtor # "ok"
        THEN [raised |-> mmCtor, log |-> started \cup kgLog, processor |-> PyNone]
        ELSE [raised |-> "ok",
              log |-> started \cup kgLog \cup {Line("multi_model_ok")},
              processor |-> [cls |-> "EnterpriseAIProcessor",
                             groq_api_key |-> GetEnv("GROQ_API_KEY"),
                             gemini_api_key |-> GetEnv("GOOGLE_API_KEY"),
                             ollama_url |-> DictGet(cfg, "multi_model.ollama_url",
                                                    PyStr("http://localhost:11434")),
                             knowledge_manager |-> knowledge_manager]]

\* lines 149-155: Groq first, Google when the Groq key is missing or empty
BasicCredential_GoogleFirst(groq, google) ==
    IF Truthy(google) THEN [api_key |-> google, provider |-> "google"]
    ELSE [api_key |-> groq, provider |-> "groq"]
BasicCredential(groq, google) ==
    IF Truthy(groq) THEN [api_key |-> groq, provider |-> "groq"]
    ELSE [api_key |-> google, provider |-> "google"]

\* lines 161-164
ModelName(cfg, provider) ==
    IF provider = "groq"
    THEN DictGet(cfg, "model_name", PyStr("llama-3.1-8b-instant"))
    ELSE DictGet(cfg, "model_name", PyStr("gemini-2.0-flash"))

\* lines 144-168: [exit |-> TRUE] stands for sys.exit(1) at line 158
BasicProcessor(cfg) ==
    LET cred == BasicCredential(GetEnv("GROQ_API_KEY"), GetEnv("GOOGLE_API_KEY"))
    IN  IF ~Truthy(cred.api_key)
        THEN [exit |-> TRUE, processor |-> PyNone]
        ELSE [exit |-> FALSE,
              processor |-> [cls |-> "AIProcessor", api_key |-> cred.api_key,
                             model_name |-> ModelName(cfg, cred.provider)]]


(***************************************************************************)
(* The batch loop of run_pipeline.                                         *)
(***************************************************************************)
\* an article record of the collector: an id (its url) and, normally, a title
Article(i, titled) ==
    [k \in (IF titled THEN {"id", "title"} ELSE {"id"}) |->
        IF k = "id" THEN PyInt(i) ELSE PyStr("title")]

\* the deduplicated article lists of at most MaxArticles articles; article i is
\* the i-th of the input
ArticleLists ==
    UNION {{[i \in 1..n |-> Article(i, t[i])] : t \in [1..n -> BOOLEAN]} : n \in 0..MaxArticles}

PyDict(d) == [type |-> "dict", val |-> d]

\* the result dicts process_article is made to return
StatusOnly(st) == [k \in {"status"} |-> PyStr(st)]
ScoreOnly(sc) == [k \in {"relevance_score"} |-> sc]
StatusScore(st, sc) ==
    [k \in {"status", "relevance_score"} |-> IF k = "status" THEN PyStr(st) ELSE sc]
ResultDicts ==
    {StatusScore("success", PyInt(60)), StatusScore("success", PyInt(59)),
     StatusOnly("success"), ScoreOnly(PyInt(60)),
     StatusScore("failed", PyInt(60)),
     StatusScore("success", PyStr("high"))}

\* what one process_article call does: raise, or return a value (a dict, or None)
CallOutcomes ==
    {[kind |-> "raise", value |-> PyNone], [kind |-> "return", value |-> PyNone]}
    \cup {[kind |-> "return", value |-> PyDict(d)] : d \in ResultDicts}

\* {**item, **analysis}
Merge(item, analysis) ==
    [k \in DOMAIN item \cup DOMAIN analysis |->
        IF k \in DOMAIN analysis THEN analysis[k] ELSE item[k]]

\* line 256
IsFailed_ErrorLiteral(analysis) == DictGet(analysis, "status", PyNone) = PyStr("error")
IsFailed(analysis) == DictGet(analysis, "status", PyNone) = PyStr("failed")

\* line 262
Score(analysis) == DictGet(analysis, "relevance_score", PyInt(0))

\* line 263: ">=" between two ints; anything else raises TypeError
Comparable(score, threshold) == score.type = "int" /\ threshold.type = "int"
MeetsThreshold_Strict(score, threshold) == score.val > threshold.val
MeetsThreshold(score, threshold) == score.val >= threshold.val

\* lines 251-277: which way one iteration goes for the given call outcome
Branch_BelowIsFailure(outcome, threshold) ==
    IF outcome.kind = "raise" THEN "exception"
    ELSE IF outcome.value.type # "dict" THEN "exception"
    ELSE LET analysis == outcome.value.val IN
         IF IsFailed(analysis) THEN "failed"
         ELSE IF ~Comparable(Score(analysis), threshold) THEN "exception"
         ELSE IF MeetsThreshold(Score(analysis), threshold) THEN "accepted"
         ELSE "failed"
Branch(outcome, threshold) ==
    IF outcome.kind = "raise" THEN "exception"
    ELSE IF outcome.value.type # "dict" THEN "exception"
    ELSE LET analysis == outcome.value.val IN
         IF IsFailed(analysis) THEN "failed"
         ELSE IF ~Comparable(Score(analysis), threshold) THEN "exception"
         ELSE IF MeetsThreshold(Score(analysis), threshold) THEN "accepted"
         ELSE "below"

\* line 266
AppendInsight_Front(insights, merged) == <<merged>> \o insights
AppendInsight(insights, merged) == Append(insights, merged)

\* lines 258 and 276
AppendFailed_Dropped(failed, item) == failed
AppendFailed(failed, item) == Append(failed, item)


(***************************************************************************)
(* State machine: run_pipeline from its first line to the end of the batch *)
(* loop (line 277). The phases after the loop read final_insights and      *)
(* change neither list.                                                    *)
(***************************************************************************)
Init ==
    /\ pc = "start"
    /\ env \in Environments
    /\ ollama \in ProbeResults
    /\ config = EmptyDict
    /\ log = {}
    /\ processor = PyNone
    /\ processor_type = PyNone
    /\ raw_data = <<>>
    /\ relevance_threshold = PyNone
    /\ idx = 1
    /\ final_insights = <<>>
    /\ failed_analyses = <<>>
    /\ below_threshold = <<>>
    /\ results = <<>>
    /\ exit_code = PyNone
    /\ error = PyNone

\* sys.exit(1): SystemExit is not an Exception, so line 365 does not catch it
SysExit(lines) ==
    /\ pc' = "exit"
    /\ exit_code' = PyInt(1)
    /\ log' = log \cup lines
    /\ UNCHANGED <<env, ollama, config, processor, processor_type, raw_data,
                   relevance_threshold, idx, final_insights, failed_analyses,
                   below_threshold, results, error>>

\* lines 365-370: an Exception that reaches run_pipeline's handler
Critical(exc, lines) ==
    /\ pc' = "exit"
    /\ exit_code' = PyInt(1)
    /\ error' = PyStr(exc)
    /\ log' = log \cup lines
    /\ UNCHANGED <<env, ollama, config, processor, processor_type, raw_data,
                   relevance_threshold, idx, final_insights, failed_analyses,
                   below_threshold, results>>

\* lines 68-94, called at line 181
ValidateEnvironment ==
    /\ pc = "start"
    /\ LET has_gemini == Truthy(GetEnv("GOOGLE_API_KEY"))
           has_groq == Truthy(GetEnv("GROQ_API_KEY"))
           has_ollama == HasOllama(ollama)
       IN  IF ~HasProvider(has_gemini, has_groq, has_ollama)
           THEN SysExit({Line("no_provider")})
           ELSE /\ pc' = "validated"
                /\ log' = log \cup {Line("validated")}
                             \cup (IF has_groq THEN {Line("groq_ok")} ELSE {})
                             \cup (IF has_ollama THEN {Line("ollama_ok")} ELSE {})
                             \cup (IF has_gemini THEN {Line("gemini_ok")} ELSE {})
                /\ UNCHANGED <<env, ollama, config, processor, processor_type,
                               raw_data, relevance_threshold, idx, final_insights,
                               failed_analyses, below_threshold, results,
                               exit_code, error>>

\* lines 53-65, called at line 184
LoadConfig ==
    /\ pc = "validated"
    /\ \/ \E c \in Configs :
            /\ config' = c
            /\ pc' = "configured"
            /\ UNCHANGED <<env, ollama, log, processor, processor_type, raw_data,
                           relevance_threshold, idx, final_insights,
                           failed_analyses, below_threshold, results,
                           exit_code, error>>
       \/ SysExit({Line("config_error")})

\* lines 97-168, called at line 193
InitializeProcessor ==
    /\ pc = "configured"
    /\ \E mmImport \in MultiModelImports, kg \in KnowledgeGraphOutcomes,
          mmCtor \in MultiModelConstructions :
         LET use_multi_model == DictGet(config, "multi_model.enabled", PyBool(FALSE)).val
             attempt == MultiModelAttempt(config, mmImport, kg, mmCtor)
             basic == BasicProcessor(config)
         IN  IF use_multi_model /\ attempt.raised = "ok"
             THEN /\ processor' = attempt.processor
                  /\ processor_type' = PyStr("multi-model")
                  /\ log' = log \cup attempt.log
                  /\ pc' = "initialized"
                  /\ UNCHANGED <<env, ollama, config, raw_data, relevance_threshold,
                                 idx, final_insights, failed_analyses,
                                 below_threshold, results, exit_code, error>>
             ELSE IF use_multi_model /\ ~MultiModelCaught(attempt.raised)
             THEN Critical(attempt.raised, attempt.log)
             ELSE LET lines == (IF use_multi_model
                                THEN attempt.log
                                     \cup {<<"multi_model_unavailable", attempt.raised>>}
                                ELSE {}) \cup {Line("basic_selected")}
                  IN  IF basic.exit
                      THEN SysExit(lines \cup {Line("no_api_key")})
                      ELSE /\ processor' = basic.processor
                           /\ processor_type' = PyStr("basic")
                           /\ log' = log \cup lines
                           /\ pc' = "initialized"
                           /\ UNCHANGED <<env, ollama, config, raw_data,
                                          relevance_threshold, idx, final_insights,
                                          failed_analyses, below_threshold, results,
                                          exit_code, error>>

\* lines 197-246: the other components, collection, deduplication, context,
\* and the threshold lookup of line 242
CollectArticles ==
    /\ pc = "initialized"
    /\ \E data \in ArticleLists :
         IF data = <<>>
         THEN /\ pc' = "returned"
              /\ UNCHANGED <<env, ollama, config, log, processor, processor_type,
                             raw_data, relevance_threshold, idx, final_insights,
                             failed_analyses, below_threshold, results, exit_code,
                             error>>
         ELSE IF "relevance_threshold" \notin DOMAIN config
         THEN /\ raw_data' = data
              /\ pc' = "exit"
              /\ exit_code' = PyInt(1)
              /\ error' = PyStr("KeyError: relevance_threshold")
              /\ UNCHANGED <<env, ollama, config, log, processor, processor_type,
                             relevance_threshold, idx, final_insights,
                             failed_analyses, below_threshold, results>>
         ELSE /\ raw_data' = data
              /\ relevance_threshold' = config["relevance_threshold"]
              /\ pc' = "analysis"
              /\ UNCHANGED <<env, ollama, config, log, processor, processor_type,
                             idx, final_insights, failed_analyses, below_threshold,
                             results, exit_code, error>>

\* lines 248-277: one iteration of the loop; after the last article the loop
\* is left (pc = "analysed", line 279)
AnalyzeArticle ==
    /\ pc = "analysis"
    /\ idx <= Len(raw_data)
    /\ LET item == raw_data[idx] IN
       IF "title" \notin DOMAIN item
       THEN Critical("KeyError: title", {})
       ELSE \E outcome \in CallOutcomes :
              LET branch == Branch(outcome, relevance_threshold) IN
              /\ results' = Append(results, [item |-> item, kind |-> outcome.kind,
                                             value |-> outcome.value])
              /\ final_insights' =
                    IF branch = "accepted"
                    THEN AppendInsight(final_insights, Merge(item, outcome.value.val))
                    ELSE final_insights
              /\ failed_analyses' =
                    IF branch \in {"failed", "exception"}
                    THEN AppendFailed(failed_analyses, item)
                    ELSE failed_analyses
              /\ below_threshold' =
                    IF branch = "below" THEN Append(below_threshold, item)
                    ELSE below_threshold
              /\ idx' = idx + 1
              /\ pc' = IF idx + 1 > Len(raw_data) THEN "analysed" ELSE "analysis"
              /\ UNCHANGED <<env, ollama, config, log, processor, processor_type,
                             raw_data, relevance_threshold, exit_code, error>>

Next ==
    \/ ValidateEnvironment
    \/ LoadConfig
    \/ InitializeProcessor
    \/ CollectArticles
    \/ AnalyzeArticle

Spec == Init /\ [][Next]_vars

(***************************************************************************)
(* Vocabulary of the properties.                                           *)
(***************************************************************************)
Occurrences(list, item) ==
    Cardinality({j \in 1..Len(list) : list[j]["id"] = item["id"]})
Holds(list, item) == \E j \in 1..Len(list) : list[j]["id"] = item["id"]
InAccepted(item) == Holds(final_insights, item)
InFailed(item) == Holds(failed_analyses, item)
InBelow(item) == Holds(below_threshold, item)

ReturnedDict(r) == r.kind = "return" /\ r.value.type = "dict"
HasStatus(r, st) ==
    /\ ReturnedDict(r)
    /\ "status" \in DOMAIN r.value.val
    /\ r.value.val["status"] = PyStr(st)
HasScore(r) == ReturnedDict(r) /\ "relevance_score" \in DOMAIN r.value.val
ScoreOf(r) == r.value.val["relevance_score"]

\* the result says "success" and its score is a number of at least the
\* threshold; a result with no score field is read the way line 262 reads it,
\* as a score of 0
SuccessAtLeast(r, threshold) ==
    /\ HasStatus(r, "success")
    /\ IF HasScore(r)
       THEN ScoreOf(r).type = "int" /\ ScoreOf(r).val >= threshold.val
       ELSE 0 >= threshold.val

\* the result is a dict that does not say "failed", and its score, 0 when the
\* field is absent, is a number of at least the threshold
NotFailedAtLeast(r, threshold) ==
    /\ ReturnedDict(r)
    /\ ~HasStatus(r, "failed")
    /\ IF HasScore(r)
       THEN ScoreOf(r).type = "int" /\ ScoreOf(r).val >= threshold.val
       ELSE 0 >= threshold.val

\* handling the article raised: in the call, in analysis.get (the result is no
\* dict) or in the comparison with the threshold (the score is no number)
RaisedException(r) ==
    \/ r.kind = "raise"
    \/ r.kind = "return" /\ r.value.type # "dict"
    \/ ReturnedDict(r) /\ ~HasStatus(r, "failed") /\ HasScore(r) /\ ScoreOf(r).type # "int"

StrictlyIncreasing(list) ==
    \A i, j \in 1..Len(list) : i < j => list[i]["id"].val < list[j]["id"].val

NeitherKey == ~Truthy(GetEnv("GROQ_API_KEY")) /\ ~Truthy(GetEnv("GOOGLE_API_KEY"))

\* sys.exit(1) before any article was collected or analysed
HaltedBeforeLoop ==
    /\ pc = "exit"
    /\ exit_code = PyInt(1)
    /\ error = PyNone
    /\ processor = PyNone
    /\ raw_data = <<>>
    /\ results = <<>>
    /\ final_insights = <<>>
    /\ failed_analyses = <<>>

KnowledgeGraphFailures == KnowledgeGraphOutcomes \ {"ok"}
GraphRagFailureLogged == \E e \in KnowledgeGraphFailures : <<"graph_rag_failed", e>> \in log
MultiModelFailed ==
    \/ \E e \in MultiModelConstructions \cup MultiModelImports :
          <<"multi_model_unavailable", e>> \in log
    \/ \E e \in MultiModelConstructions \ {"ok"} : error = PyStr(e)

(***************************************************************************)
(* Properties.                                                             *)
(***************************************************************************)

\* C1 as stated: an analysed article is in final_insights iff its result has
\* status "success" and a relevance_score >= the threshold, whatever the shape
\* of the result.
C1_AcceptedIffSuccessAtLeast ==
    \A k \in 1..Len(results) :
        InAccepted(results[k].item) <=> SuccessAtLeast(results[k], relevance_threshold)

\* C1 amended: an analysed article is in final_insights iff process_article
\* returned a dict whose status is not "failed" (a missing status counts as not
\* failed) and whose relevance_score, taken as 0 when absent, is a number >= the
\* threshold.
C1_AcceptedIffNotFailedAtLeast ==
    \A k \in 1..Len(results) :
        InAccepted(results[k].item) <=> NotFailedAtLeast(results[k], relevance_threshold)

C1_Witness ==
    \E k \in 1..Len(results) :
        /\ ReturnedDict(results[k])
        /\ "status" \notin DOMAIN results[k].value.val
        /\ InAccepted(results[k].item)

\* C2: an article whose result has status "failed" is in failed_analyses and
\* not in final_insights (nor logged as below the threshold), whatever score
\* the result carries and whatever the threshold.
C2_FailedStatusGoesToFailed ==
    \A k \in 1..Len(results) :
        HasStatus(results[k], "failed") =>
            /\ InFailed(results[k].item)
            /\ ~InAccepted(results[k].item)
            /\ ~InBelow(results[k].item)

C2_Witness ==
    \E k \in 1..Len(results) :
        /\ HasStatus(results[k], "failed")
        /\ HasScore(results[k])
        /\ ScoreOf(results[k]).val >= relevance_threshold.val
        /\ InFailed(results[k].item)

\* C3: an article whose handling raises (in the call, or in the status or
\* threshold step) is in failed_analyses and not in final_insights; the
\* other articles are placed by their own results alone, and the loop goes on
\* to the next article: the only stop inside the loop is a title read.
C3_ExceptionIsAFailure ==
    /\ \A k \in 1..Len(results) :
          RaisedException(results[k]) =>
              /\ InFailed(results[k].item)
              /\ ~InAccepted(results[k].item)
    /\ \A k \in 1..Len(results) :
          ~RaisedException(results[k]) =>
              /\ InAccepted(results[k].item)
                    <=> NotFailedAtLeast(results[k], relevance_threshold)
              /\ InFailed(results[k].item) <=> HasStatus(results[k], "failed")
    /\ (results # <<>> /\ pc = "exit") => "title" \notin DOMAIN raw_data[idx]
    /\ (results # <<>> /\ pc = "analysis" /\ RaisedException(results[Len(results)]))
          => ENABLED AnalyzeArticle

\* a batch of three whose second article raised: the first is accepted, the
\* third is accepted, the second is the only failure
C3_Witness ==
    /\ pc = "analysed"
    /\ Len(results) = 3
    /\ results[2].kind = "raise"
    /\ Len(final_insights) = 2
    /\ failed_analyses = <<raw_data[2]>>

\* C4 as stated: once articles were collected, the run ends with the loop
\* complete: process_article was called once for every article, in order.
C4_LoopIsExhaustive ==
    (raw_data # <<>> /\ pc \in {"exit", "analysed"}) =>
        /\ pc = "analysed"
        /\ Len(results) = Len(raw_data)
        /\ \A k \in 1..Len(results) : results[k].item = raw_data[k]

\* C5 as stated: with multi-model mode enabled and a provider key set, a failed
\* multi-model construction (import or constructor) ends in the single-model
\* processor and the label "basic".
C5_FallsBackOnAnyFailure ==
    (/\ Line("multi_model_enabled") \in log
     /\ Line("multi_model_ok") \notin log
     /\ ~NeitherKey)
        => processor_type = PyStr("basic")

\* C6: with no provider key and the local model not answering 200, the run
\* halts with sys.exit(1) in validate_environment, before anything is collected
\* or analysed; and single-model construction reached with neither key halts
\* the same way, by sys.exit(1) and not by an entry of failed_analyses.
C6_NoCredentialHalts ==
    /\ (NeitherKey /\ ollama # "200" /\ pc # "start")
          => (HaltedBeforeLoop /\ Line("no_provider") \in log)
    /\ (NeitherKey /\ Line("basic_selected") \in log)
          => (HaltedBeforeLoop /\ Line("no_api_key") \in log)

C6_Witness ==
    /\ NeitherKey
    /\ ollama = "raises"
    /\ pc = "exit"
    /\ Line("no_provider") \in log

\* C7: final_insights and failed_analyses are in input order, each article at
\* most once in each.
C7_ListsInInputOrder ==
    /\ StrictlyIncreasing(final_insights)
    /\ StrictlyIncreasing(failed_analyses)

C7_Witness ==
    /\ Len(final_insights) = 2
    /\ Len(failed_analyses) = 1
    /\ final_insights[1]["id"].val < failed_analyses[1]["id"].val
    /\ failed_analyses[1]["id"].val < final_insights[2]["id"].val

\* C8: an article analysed with success and a score strictly below the
\* threshold is in neither list (only its "below threshold" line is logged);
\* every analysed article is in exactly one of accepted, failed, discarded.
C8_BelowThresholdDiscarded ==
    \A k \in 1..Len(results) :
        /\ Occurrences(final_insights, results[k].item)
             + Occurrences(failed_analyses, results[k].item)
             + Occurrences(below_threshold, results[k].item) = 1
        /\ (/\ HasStatus(results[k], "success")
            /\ HasScore(results[k])
            /\ ScoreOf(results[k]).type = "int"
            /\ ScoreOf(results[k]).val < relevance_threshold.val)
               => (/\ InBelow(results[k].item)
                   /\ ~InAccepted(results[k].item)
                   /\ ~InFailed(results[k].item))

C8_Witness ==
    \E k \in 1..Len(results) :
        /\ HasStatus(results[k], "success")
        /\ HasScore(results[k])
        /\ ScoreOf(results[k]) = PyInt(59)
        /\ relevance_threshold = PyInt(60)
        /\ InBelow(results[k].item)

\* C9: the single-model processor gets one key: the Groq key whenever it is
\* set (non-empty), whatever the Google key; the Google key only when the Groq
\* key is not set.
C9_CredentialPriority ==
    processor_type = PyStr("basic") =>
        /\ Truthy(processor.api_key)
        /\ Truthy(GetEnv("GROQ_API_KEY")) => processor.api_key = GetEnv("GROQ_API_KEY")
        /\ ~Truthy(GetEnv("GROQ_API_KEY")) => processor.api_key = GetEnv("GOOGLE_API_KEY")

C9_Witness ==
    /\ processor_type = PyStr("basic")
    /\ Truthy(GetEnv("GROQ_API_KEY"))
    /\ Truthy(GetEnv("GOOGLE_API_KEY"))
    /\ processor.api_key = GetEnv("GROQ_API_KEY")

\* C10: a knowledge-graph failure (import or constructor) never reaches the
\* fallback handler or the critical handler; unless the multi-model processor
\* itself fails, it is built with no knowledge manager and labelled
\* "multi-model".
C10_GraphRagFailureNotFatal ==
    /\ \A e \in KnowledgeGraphFailures :
          error # PyStr(e) /\ <<"multi_model_unavailable", e>> \notin log
    /\ (GraphRagFailureLogged /\ ~MultiModelFailed) =>
          /\ processor_type = PyStr("multi-model")
          /\ processor.cls = "EnterpriseAIProcessor"
          /\ processor.knowledge_manager = PyNone

C10_Witness ==
    /\ <<"graph_rag_failed", "RuntimeError: EnterpriseKnowledgeManager">> \in log
    /\ processor_type = PyStr("multi-model")
    /\ processor.knowledge_manager = PyNone

============================================================================
